---- MODULE Spec2Model ----
(***************************************************************************)
(* Model of lsr (n2vi/lsr): a recursive directory listing that is merged   *)
(* against the listing of the previous run.  Two successive designs of the *)
(* tool are in the repository: src/main.go (string order, no final drain)  *)
(* and src/unnamed/part_000 (pathCompare, RELAX, final drain).             *)
(*                                                                         *)
(* Paths are sequences of byte values ('-' = 45, '.' = 46, '/' = 47,       *)
(* 'a' = 97, ...).  Time is counted in ticks; a second has TicksPerSec     *)
(* ticks, so a file's mtime can have a sub-second part while the manifest  *)
(* stores whole seconds.                                                   *)
(***************************************************************************)
EXTENDS Integers, Sequences, FiniteSets, TLC

VARIABLES
    design,     \* which of the two designs runs: "main_go" or "part_000"
    tree,       \* the directory tree: regular-file path -> [size, mtime, sum]
    lsr,        \* the file .lsr: [exists, lines]
    tmp,        \* the file .lsrTEMPORARY: [exists, lines]
    relax,      \* var relax (part_000:47)
    oldinfo,    \* var oldinfo (part_000:44): the previous-manifest cursor
    oldscan,    \* var oldscan (part_000:46): lines of .lsr consumed so far
    todo,       \* entries the walk has still to call back for
    out,        \* Stdout: the diagnostic lines printed by this run
    ignored,    \* errors this run received and discarded
    pc,         \* where main is: init, walk, drain, close, done, fatal
    run,        \* number of the current invocation
    prev,       \* the earlier invocations: <<[relax]>>
    pa, pb, pc3, cmpres,      \* comparator harness: three strings, results
    wtree, wout               \* walk harness: a set of file paths, the walk

progvars == <<design, tree, lsr, tmp, relax, oldinfo, oldscan, todo, out,
              ignored, pc, run, prev>>
cmpvars  == <<pa, pb, pc3, cmpres>>
walkvars == <<wtree, wout>>
vars     == <<progvars, cmpvars, walkvars>>

(***************************************************************************)
(* Bounds                                                                  *)
(***************************************************************************)
MaxLen   == 3     \* longest string given to pathCompare
MaxPath  == 4     \* longest path of a walked tree
MaxFiles == 2     \* most regular files in a walked tree

Alphabet == {45, 47, 97}          \* '-' (below '/'), '/', 'a' (above '/')

RECURSIVE StrsOfLen(_)
StrsOfLen(n) ==
    IF n = 0 THEN {<<>>}
    ELSE {Append(s, ch) : s \in StrsOfLen(n - 1), ch \in Alphabet}

RECURSIVE StrsUpTo(_)
StrsUpTo(n) == IF n = 0 THEN StrsOfLen(0) ELSE StrsOfLen(n) \cup StrsUpTo(n - 1)

Strs == StrsUpTo(MaxLen)

(***************************************************************************)
(* pathCompare (part_000:197-224)                                          *)
(***************************************************************************)
MinLen(a, b) == IF Len(b) < Len(a) THEN Len(b) ELSE Len(a)

(* Go's built-in string comparison (main.go:142,146): byte-wise.           *)
RECURSIVE stringCompareFrom(_, _, _, _)
stringCompareFrom(a, b, i, n) ==
    IF i > n
    THEN IF Len(a) < Len(b) THEN -1
         ELSE IF Len(a) > Len(b) THEN 1
         ELSE 0
    ELSE IF a[i] < b[i] THEN -1
         ELSE IF a[i] > b[i] THEN 1
         ELSE stringCompareFrom(a, b, i + 1, n)

stringCompare(a, b) == stringCompareFrom(a, b, 1, MinLen(a, b))

RECURSIVE pathCompareFrom(_, _, _, _)
pathCompareFrom(a, b, i, n) ==
    IF i > n
    THEN IF Len(a) < Len(b) THEN -1
         ELSE IF Len(a) > Len(b) THEN 1
         ELSE 0
    ELSE IF a[i] = 47 /\ b[i] # 47 THEN -1
         ELSE IF a[i] # 47 /\ b[i] = 47 THEN 1
         ELSE IF a[i] < b[i] THEN -1
         ELSE IF a[i] > b[i] THEN 1
         ELSE pathCompareFrom(a, b, i + 1, n)

(* Variants of pathCompare: without the special case for '/', and with     *)
(* the longer of two strings first when one is a prefix of the other.      *)
pathCompareBytes(a, b) == stringCompare(a, b)

pathCompareLongerFirst(a, b) ==
    IF SubSeq(a, 1, MinLen(a, b)) = SubSeq(b, 1, MinLen(a, b))
    THEN IF Len(a) < Len(b) THEN 1
         ELSE IF Len(a) > Len(b) THEN -1
         ELSE 0
    ELSE pathCompareFrom(a, b, 1, MinLen(a, b))

pathCompare(a, b) == pathCompareFrom(a, b, 1, MinLen(a, b))


(***************************************************************************)
(* fs.WalkDir over os.DirFS(".") (part_000:67-68), filepath.Walk(".")      *)
(* (main.go:75): depth first, each directory's entries in byte-wise name   *)
(* order (ReadDir sorts by Name()), a directory before its next sibling.   *)
(* A tree is given by the set of its regular-file paths.                   *)
(***************************************************************************)
HasPrefix(f, d) == Len(f) > Len(d) /\ SubSeq(f, 1, Len(d)) = d

RECURSIVE NameEnd(_, _)
NameEnd(f, j) == IF j >= Len(f) \/ f[j + 1] = 47 THEN j ELSE NameEnd(f, j + 1)

Component(f, d) == SubSeq(f, Len(d) + 1, NameEnd(f, Len(d) + 1))

Names(files, d) == {Component(f, d) : f \in {g \in files : HasPrefix(g, d)}}

RECURSIVE SortNames(_)
SortNames(S) ==
    IF S = {} THEN <<>>
    ELSE LET m == CHOOSE x \in S : \A y \in S : stringCompare(x, y) <= 0
         IN  <<m>> \o SortNames(S \ {m})

RECURSIVE walkDir(_, _)
RECURSIVE walkEntries(_, _, _)
walkEntries(files, d, names) ==
    IF names = <<>> THEN <<>>
    ELSE LET p == d \o Head(names)
         IN  (IF p \in files
              THEN <<[path |-> p, dir |-> FALSE]>>
              ELSE <<[path |-> p, dir |-> TRUE]>> \o walkDir(files, Append(p, 47)))
             \o walkEntries(files, d, Tail(names))

walkDir(files, d) == walkEntries(files, d, SortNames(Names(files, d)))

(* The paths of the regular files, in the order the walk calls back.       *)
RECURSIVE RegularPaths(_)
RegularPaths(es) ==
    IF es = <<>> THEN <<>>
    ELSE (IF Head(es).dir THEN <<>> ELSE <<Head(es).path>>) \o RegularPaths(Tail(es))

WalkDir(files) == RegularPaths(walkDir(files, <<>>))

(* A path a tree can hold: non-empty components separated by single '/'.   *)
IsPath(f) ==
    /\ Len(f) > 0
    /\ f[1] # 47
    /\ f[Len(f)] # 47
    /\ \A i \in 1..(Len(f) - 1) : ~(f[i] = 47 /\ f[i + 1] = 47)

(* A set of regular files that can coexist: no file is also a directory.   *)
IsTree(files) ==
    /\ \A f \in files : IsPath(f)
    /\ \A f, g \in files : ~HasPrefix(g, Append(f, 47))

Paths == {f \in StrsUpTo(MaxPath) : IsPath(f)}

(***************************************************************************)
(* The program: its inputs                                                 *)
(***************************************************************************)
TicksPerSec == 2      \* resolution of the model's clock: ticks in a second
MaxRuns     == 2      \* invocations followed one after the other

Designs == {"main_go", "part_000"}

PA  == <<97>>                 \* "a"
PAC == <<97, 47, 99>>         \* "a/c"
PAB == <<97, 45, 98>>         \* "a-b"
Universe == {PA, PAC, PAB}

Root    == <<46>>                                              \* "."
LsrName == <<46, 108, 115, 114>>                               \* ".lsr"
TmpName == LsrName \o <<84, 69, 77, 80, 79, 82, 65, 82, 89>>   \* ".lsrTEMPORARY"

Abs(x) == IF x < 0 THEN -x ELSE x

Ord(p) == IF p = PA THEN 1 ELSE IF p = PAC THEN 2 ELSE 3

(* %q in Fprintf and in Sscanf (part_000:147,106), strconv.Unquote         *)
(* (main.go:112): the name between double quotes; the bytes of the model's *)
(* names need no escape.                                                   *)
Quote(path) == <<34>> \o path \o <<34>>
Unquote(q)  == SubSeq(q, 2, Len(q) - 1)

(* The digest as text: ascii85 in part_000 (146: 40 characters for 32      *)
(* bytes), hex in main.go (138: 64 characters).  Decoding gives the bytes  *)
(* and their number (part_000:115, main.go:124); fewer than 32 bytes are   *)
(* a cut digest, which equals no sha256 value.                             *)
Encode(digest) ==
    [chars |-> IF design = "part_000" THEN 40 ELSE 64, of |-> digest]
Decode(text) ==
    LET n == IF design = "part_000" THEN (text.chars * 4) \div 5
             ELSE text.chars \div 2
    IN  [ndst |-> n, sum |-> IF n = 32 THEN text.of ELSE -1 - text.of]

(* The line an earlier run left in .lsr for a path, when it left one:      *)
(* name, size, mtime in whole seconds, digest.  Lines of different paths   *)
(* differ in every field.                                                  *)
OldSum(p) == 10 * Ord(p)
OldLine(p) ==
    [name |-> Quote(p), size |-> Ord(p), time |-> 10 * Ord(p),
     sum |-> Encode(OldSum(p)), form |-> "ok"]

(* What a regular file can be now, relative to that line: contents and     *)
(* size as recorded, same size with other contents, or another size with   *)
(* other contents; the mtime from more than a second before the recorded   *)
(* second to more than a second after it, sub-second parts included.       *)
Contents == {[ds |-> 0, dh |-> 0], [ds |-> 0, dh |-> 1], [ds |-> 1, dh |-> 1]}

FileInfos(p) ==
    {[size  |-> OldLine(p).size + c.ds,
      sum   |-> OldSum(p) + c.dh,
      mtime |-> OldLine(p).time * TicksPerSec + dt] :
        c \in Contents, dt \in (-(TicksPerSec + 1))..(TicksPerSec + 1)}

TreeStates ==
    UNION {{f \in [t -> UNION {FileInfos(q) : q \in t}] :
                \A q \in t : f[q] \in FileInfos(q)} :
           t \in {u \in SUBSET Universe : IsTree(u)}}

(* Manifests an earlier run can have left: lines in walk order, which is   *)
(* the order of pathCompare; on disk one of the lines may since have been  *)
(* damaged: garbled (a field that does not scan: quoting, size, time or    *)
(* digest text), a fifth field appended, or the digest text cut by ten     *)
(* characters.  No .lsr at all is the state before the first run.          *)
DamageKinds == {"garbled", "fields5", "shortsum"}

Damage(lines, k, kind) ==
    [i \in 1..Len(lines) |->
        IF i # k THEN lines[i]
        ELSE IF kind = "shortsum"
        THEN [lines[i] EXCEPT !.sum.chars = @ - 10]
        ELSE [lines[i] EXCEPT !.form = kind]]

ManifestOf(t) ==
    LET w == WalkDir(t) IN [i \in 1..Len(w) |-> OldLine(w[i])]

(* The damaged manifests: the one of a/c and a-b with its first or its     *)
(* second line damaged, so that the damage is met when the cursor is       *)
(* primed or later in the run.                                             *)
Damaged ==
    {Damage(ManifestOf({PAC, PAB}), k, kind) :
        k \in 1..Cardinality({PAC, PAB}), kind \in DamageKinds}

LsrStates ==
    {[exists |-> FALSE, lines |-> <<>>]} \cup
    {[exists |-> TRUE, lines |-> ManifestOf(t)] :
        t \in {u \in SUBSET Universe : IsTree(u)}} \cup
    {[exists |-> TRUE, lines |-> l] : l \in Damaged}

(***************************************************************************)
(* The program: helpers                                                    *)
(***************************************************************************)
(* info.ModTime().UTC().Format(time.RFC3339): whole seconds, the           *)
(* sub-second part is dropped.                                             *)
Format(t) == t \div TicksPerSec

(* time.Parse(time.RFC3339, fld) of a whole-second field.                  *)
Parse(sec) == sec * TicksPerSec

(* fmt.Fprintf(newlsr, "%q %d %s %s\n", ...): one manifest line.           *)
Fprintf(path, size, mtime, digest) ==
    [name |-> Quote(path), size |-> size, time |-> Format(mtime),
     sum |-> Encode(digest), form |-> "ok"]

(* Variants of the tolerance test: strictly less than a second, and no     *)
(* tolerance at all.                                                       *)
SameTimeStrict(old, new) == Abs(old - new) < TicksPerSec
SameTimeExact(old, new) == old = new

(* math.Abs(oldinfo.mtime.Sub(newmtime).Seconds()) <= 1.                   *)
SameTime(old, new) == Abs(old - new) <= TicksPerSec

(* Variant of the reuse test that does not look at the size.               *)
reuseOldsumAnySize(oi, path, samesize, sametime) ==
    relax /\ ~oi.eof /\ oi.name = path /\ sametime

(* Variant of the reuse test that does not look at the RELAX toggle.       *)
reuseOldsumUnasked(oi, path, samesize, sametime) ==
    ~oi.eof /\ oi.name = path /\ samesize /\ sametime

(* Variant of the reuse test that never holds.                             *)
reuseOldsumNever(oi, path, samesize, sametime) == FALSE

(* The test of part_000:140: under RELAX the digest of the previous record *)
(* stands in for the file's hash.                                          *)
reuseOldsum(oi, path, samesize, sametime) ==
    relax /\ ~oi.eof /\ oi.name = path /\ samesize /\ sametime

(* sum(path): sha256 of the file's contents.                               *)
sum(path) == tree[path].sum

(* The zero value of var oldinfo.                                          *)
ZeroInfo == [name |-> <<>>, size |-> 0, mtime |-> 0, sum |-> 0, eof |-> FALSE]

(* Whether log.Fatalf ends the process at a line.  part_000 (106-119):     *)
(* Sscanf of four items fails on a field that does not scan and stops      *)
(* after the fourth without looking at what follows it; the digest must    *)
(* decode to 32 bytes.  main.go (108-127): the line must split into        *)
(* exactly four fields that parse; the length of the decoded digest is not *)
(* looked at.                                                              *)
Fatalf(l) ==
    IF design = "part_000"
    THEN l.form = "garbled" \/ Decode(l.sum).ndst # 32
    ELSE l.form # "ok"

(* getOldinfo: reads and parses the next line of .lsr into oldinfo.        *)
(* Result: the cursor, the lines consumed, and whether log.Fatalf ended    *)
(* the process.                                                            *)
getOldinfo(oi, scan) ==
    IF oi.eof
    THEN [oi |-> oi, scan |-> scan, fatal |-> FALSE]
    ELSE IF scan >= Len(lsr.lines)
    THEN [oi |-> [oi EXCEPT !.eof = TRUE], scan |-> scan, fatal |-> FALSE]
    ELSE LET l == lsr.lines[scan + 1]
             d == Decode(l.sum)
         IN  IF Fatalf(l)
             THEN [oi |-> oi, scan |-> scan + 1, fatal |-> TRUE]
             ELSE [oi |-> [name |-> Unquote(l.name), size |-> l.size,
                           mtime |-> Parse(l.time), sum |-> d.sum,
                           eof |-> FALSE],
                   scan |-> scan + 1, fatal |-> FALSE]

(* The loop of gotNewinfo that reports the previous paths before the       *)
(* current one as deleted (part_000:151-158).                              *)
RECURSIVE deleteLoop(_, _, _, _, _, _, _, _)
deleteLoop(oi, scan, o, path, newsize, newmtime, samesize, sametime) ==
    IF ~oi.eof /\ pathCompare(oi.name, path) < 0
    THEN LET g == getOldinfo(oi, scan)
             o2 == Append(o, [code |-> "D", path |-> oi.name])
         IN  IF g.fatal
             THEN [oi |-> g.oi, scan |-> g.scan, out |-> o2, fatal |-> TRUE,
                   samesize |-> samesize, sametime |-> sametime]
             ELSE deleteLoop(g.oi, g.scan, o2, path, newsize, newmtime,
                             g.oi.size = newsize,
                             SameTime(g.oi.mtime, newmtime))
    ELSE [oi |-> oi, scan |-> scan, out |-> o, fatal |-> FALSE,
          samesize |-> samesize, sametime |-> sametime]

(* The same loop in main.go (142-145), in string order.                    *)
RECURSIVE deleteLoopMain(_, _, _, _)
deleteLoopMain(oi, scan, o, path) ==
    IF ~oi.eof /\ stringCompare(oi.name, path) < 0
    THEN LET g == getOldinfo(oi, scan)
             o2 == Append(o, [code |-> "D", path |-> oi.name])
         IN  IF g.fatal
             THEN [oi |-> g.oi, scan |-> g.scan, out |-> o2, fatal |-> TRUE]
             ELSE deleteLoopMain(g.oi, g.scan, o2, path)
    ELSE [oi |-> oi, scan |-> scan, out |-> o, fatal |-> FALSE]

(* Variant of the classification with the two directions exchanged.        *)
classifyBackwards(oi, newmtime, newsum, samesize, sametime) ==
    IF ~samesize \/ oi.sum # newsum
    THEN IF oi.mtime > newmtime THEN "M"
         ELSE IF oi.mtime < newmtime THEN "R"
         ELSE "C"
    ELSE IF ~sametime THEN "T" ELSE ""

(* Classification of a path found in both (part_000:164-175); "" is the    *)
(* silent case.                                                            *)
classify(oi, newmtime, newsum, samesize, sametime) ==
    IF ~samesize \/ oi.sum # newsum
    THEN IF oi.mtime < newmtime THEN "M"
         ELSE IF oi.mtime > newmtime THEN "R"
         ELSE "C"
    ELSE IF ~sametime THEN "T" ELSE ""

(* The same in main.go (151-164).                                          *)
classifyMain(oi, newsize, newmtime, newsum) ==
    IF oi.size # newsize \/ oi.sum # newsum
    THEN IF oi.mtime < newmtime THEN "M"
         ELSE IF oi.mtime > newmtime THEN "R"
         ELSE "C"
    ELSE IF Abs(oi.mtime - newmtime) > TicksPerSec THEN "T" ELSE ""

(* Variant that puts the line in front of the lines printed so far.        *)
PrintfInFront(o, code, path) ==
    IF code = "" THEN o ELSE <<[code |-> code, path |-> path]>> \o o

(* fmt.Printf("%s %s\n", code, path) on Stdout; nothing for the silent     *)
(* case.                                                                   *)
Printf(o, code, path) ==
    IF code = "" THEN o ELSE Append(o, [code |-> code, path |-> path])

(* Variant of the drain loop that reads to the end and reports nothing.    *)
drainSilent(oi, scan, o) ==
    [oi |-> [oi EXCEPT !.eof = TRUE], scan |-> Len(lsr.lines), out |-> o,
     fatal |-> FALSE]

(* The loop of main that reports what is left of the previous manifest as  *)
(* deleted (part_000:70-73).                                               *)
RECURSIVE drain(_, _, _)
drain(oi, scan, o) ==
    IF ~oi.eof
    THEN LET g == getOldinfo(oi, scan)
             o2 == Append(o, [code |-> "D", path |-> oi.name])
         IN  IF g.fatal
             THEN [oi |-> g.oi, scan |-> g.scan, out |-> o2, fatal |-> TRUE]
             ELSE drain(g.oi, g.scan, o2)
    ELSE [oi |-> oi, scan |-> scan, out |-> o, fatal |-> FALSE]

(* Where main goes on when the walk returns: part_000 drains the previous  *)
(* manifest, main.go has a TODO there and closes the files at once.        *)
AfterWalk == IF design = "part_000" THEN "drain" ELSE "close"

(***************************************************************************)
(* The program: operations                                                 *)
(***************************************************************************)
NoFile == [exists |-> FALSE, lines |-> <<>>]

(* Variant of the open that truncates (O_TRUNC).                           *)
OpenFileTrunc(f) == [exists |-> TRUE, lines |-> <<>>]

(* os.OpenFile(".lsr", os.O_CREATE, 0600): opens for reading, creates an   *)
(* empty file when there is none, never truncates.                         *)
OpenFile(f) == IF f.exists THEN f ELSE [exists |-> TRUE, lines |-> <<>>]

(* os.Create(".lsrTEMPORARY"): creates or truncates.                       *)
Create(f) == [exists |-> TRUE, lines |-> <<>>]

(* os.Rename(".lsrTEMPORARY", ".lsr"): the pair <<.lsr, .lsrTEMPORARY>>    *)
(* afterwards.                                                             *)
Rename(from, to) == <<[exists |-> TRUE, lines |-> from.lines], NoFile>>

(* The entries the walk calls back for: the root, then its entries depth   *)
(* first; .lsr and .lsrTEMPORARY exist in the root by then.                *)
Entries ==
    <<[path |-> Root, dir |-> TRUE]>>
        \o walkDir(DOMAIN tree \cup {LsrName, TmpName}, <<>>)

Init ==
    /\ design \in Designs
    /\ tree \in TreeStates
    /\ lsr \in LsrStates
    /\ tmp = NoFile
    /\ relax = FALSE
    /\ oldinfo = ZeroInfo
    /\ oldscan = 0
    /\ todo = <<>>
    /\ out = <<>>
    /\ ignored = {}
    /\ pc = "init"
    /\ run = 1
    /\ prev = <<>>
    /\ pa = <<>> /\ pb = <<>> /\ pc3 = <<>> /\ cmpres = <<>>
    /\ wtree = {} /\ wout = <<>>

(* main up to the walk (part_000:49-65, main.go:59-73).                    *)
Start ==
    /\ pc = "init"
    /\ \E r \in (IF design = "part_000" THEN BOOLEAN ELSE {FALSE}),
          fault \in {"none", "open", "create", "chmod"} :
        LET g == getOldinfo(ZeroInfo, 0)
        IN  /\ relax' = r
            /\ lsr' = IF fault = "open" THEN lsr ELSE OpenFile(lsr)
            /\ tmp' = IF fault \in {"open", "create"} THEN tmp ELSE Create(tmp)
            /\ IF fault # "none"
               THEN /\ pc' = "fatal"
                    /\ UNCHANGED <<oldinfo, oldscan, todo>>
               ELSE /\ oldinfo' = g.oi
                    /\ oldscan' = g.scan
                    /\ pc' = IF g.fatal THEN "fatal" ELSE "walk"
                    /\ todo' = IF g.fatal THEN <<>> ELSE Entries
    /\ UNCHANGED <<design, tree, out, ignored, run, prev, cmpvars, walkvars>>

(* What a callback leaves behind: the walk goes on with the rest, or       *)
(* returns to main after the last entry.                                   *)
Return(rest) ==
    /\ todo' = rest
    /\ pc' = IF rest = <<>> THEN AfterWalk ELSE "walk"

(* The callback returns the error: the walk stops and returns it to main,  *)
(* which discards it (part_000:68, main.go:75).  The entries left in todo  *)
(* are never called back for.                                              *)
ReturnErr ==
    /\ pc' = AfterWalk
    /\ ignored' = ignored \cup {"walk"}
    /\ UNCHANGED <<todo, tmp, oldinfo, oldscan, out>>

(* gotNewinfo of part_000 (122-178), one call.                             *)
gotNewinfo ==
    /\ pc = "walk" /\ design = "part_000" /\ todo # <<>>
    /\ \E fault \in {"none", "readdir", "info", "sum", "write"} :
        LET e    == Head(todo)
            path == e.path
        IN
        IF fault \in {"readdir", "info"}
        THEN /\ fault = "readdir" => e.dir
             /\ ReturnErr
        ELSE IF e.dir \/ path = LsrName \/ path = TmpName
        THEN /\ fault = "none"
             /\ Return(Tail(todo))
             /\ UNCHANGED <<tmp, oldinfo, oldscan, out, ignored>>
        ELSE
        LET newsize   == tree[path].size
            newmtime  == tree[path].mtime
            samesize0 == oldinfo.size = newsize
            sametime0 == SameTime(oldinfo.mtime, newmtime)
            reuse     == reuseOldsum(oldinfo, path, samesize0, sametime0)
            newsum    == IF reuse THEN oldinfo.sum ELSE sum(path)
            m == deleteLoop(oldinfo, oldscan, out, path, newsize, newmtime,
                            samesize0, sametime0)
            isnew == m.oi.eof \/ pathCompare(m.oi.name, path) > 0
            code  == classify(m.oi, newmtime, newsum, m.samesize, m.sametime)
            g     == getOldinfo(m.oi, m.scan)
        IN
        IF fault = "sum"
        THEN /\ ~reuse
             /\ pc' = "fatal"
             /\ UNCHANGED <<tmp, oldinfo, oldscan, out, ignored, todo>>
        ELSE
        /\ tmp' = IF fault = "write" THEN tmp
                  ELSE [tmp EXCEPT !.lines =
                          Append(@, Fprintf(path, newsize, newmtime, newsum))]
        /\ ignored' = IF fault = "write" THEN ignored \cup {"write"} ELSE ignored
        /\ IF m.fatal
           THEN /\ out' = m.out /\ oldinfo' = m.oi /\ oldscan' = m.scan
                /\ pc' = "fatal" /\ UNCHANGED todo
           ELSE IF isnew
           THEN /\ out' = Printf(m.out, "N", path)
                /\ oldinfo' = m.oi /\ oldscan' = m.scan
                /\ Return(Tail(todo))
           ELSE /\ out' = Printf(m.out, code, path)
                /\ oldinfo' = g.oi /\ oldscan' = g.scan
                /\ IF g.fatal THEN pc' = "fatal" /\ UNCHANGED todo
                   ELSE Return(Tail(todo))
    /\ UNCHANGED <<design, tree, lsr, relax, run, prev, cmpvars, walkvars>>

(* gotNewinfo of main.go (130-167), one call.                              *)
gotNewinfoMain ==
    /\ pc = "walk" /\ design = "main_go" /\ todo # <<>>
    /\ \E fault \in {"none", "walk", "sum", "write"} :
        LET e    == Head(todo)
            path == e.path
        IN
        IF fault = "walk"
        THEN ReturnErr
        ELSE IF e.dir \/ path = LsrName \/ path = TmpName
        THEN /\ fault = "none"
             /\ Return(Tail(todo))
             /\ UNCHANGED <<tmp, oldinfo, oldscan, out, ignored>>
        ELSE
        LET newsize  == tree[path].size
            newmtime == tree[path].mtime
            newsum   == sum(path)
            m == deleteLoopMain(oldinfo, oldscan, out, path)
            isnew == m.oi.eof \/ stringCompare(m.oi.name, path) > 0
            code  == classifyMain(m.oi, newsize, newmtime, newsum)
            g     == getOldinfo(m.oi, m.scan)
        IN
        IF fault = "sum"
        THEN /\ pc' = "fatal"
             /\ UNCHANGED <<tmp, oldinfo, oldscan, out, ignored, todo>>
        ELSE
        /\ tmp' = IF fault = "write" THEN tmp
                  ELSE [tmp EXCEPT !.lines =
                          Append(@, Fprintf(path, newsize, newmtime, newsum))]
        /\ ignored' = IF fault = "write" THEN ignored \cup {"write"} ELSE ignored
        /\ IF m.fatal
           THEN /\ out' = m.out /\ oldinfo' = m.oi /\ oldscan' = m.scan
                /\ pc' = "fatal" /\ UNCHANGED todo
           ELSE IF isnew
           THEN /\ out' = Printf(m.out, "N", path)
                /\ oldinfo' = m.oi /\ oldscan' = m.scan
                /\ Return(Tail(todo))
           ELSE /\ out' = Printf(m.out, code, path)
                /\ oldinfo' = g.oi /\ oldscan' = g.scan
                /\ IF g.fatal THEN pc' = "fatal" /\ UNCHANGED todo
                   ELSE Return(Tail(todo))
    /\ UNCHANGED <<design, tree, lsr, relax, run, prev, cmpvars, walkvars>>

(* The drain loop of main (part_000:70-73).                                *)
Drain ==
    /\ pc = "drain"
    /\ LET d == drain(oldinfo, oldscan, out)
       IN  /\ oldinfo' = d.oi /\ oldscan' = d.scan /\ out' = d.out
           /\ pc' = IF d.fatal THEN "fatal" ELSE "close"
    /\ UNCHANGED <<design, tree, lsr, tmp, relax, todo, ignored, run, prev,
                   cmpvars, walkvars>>

(* The end of main: close both files, rename (part_000:75-87,              *)
(* main.go:79-91).                                                         *)
Finish ==
    /\ pc = "close"
    /\ \E fault \in {"none", "closenew", "closeold", "rename"} :
        IF fault # "none"
        THEN pc' = "fatal" /\ UNCHANGED <<lsr, tmp>>
        ELSE /\ pc' = "done"
             /\ lsr' = Rename(tmp, lsr)[1]
             /\ tmp' = Rename(tmp, lsr)[2]
    /\ UNCHANGED <<design, tree, relax, oldinfo, oldscan, todo, out, ignored,
                   run, prev, cmpvars, walkvars>>

(* The tool is invoked again in the same directory, the tree as it was.    *)
(* The model follows the next invocation after a run that completed and    *)
(* discarded no error; what a run that discarded one leaves behind is seen *)
(* in its own final state.                                                 *)
Restart ==
    /\ pc = "done" /\ ignored = {} /\ run < MaxRuns
    /\ run' = run + 1
    /\ prev' = Append(prev, [relax |-> relax])
    /\ pc' = "init"
    /\ relax' = FALSE
    /\ oldinfo' = ZeroInfo /\ oldscan' = 0
    /\ todo' = <<>> /\ out' = <<>> /\ ignored' = {}
    /\ UNCHANGED <<design, tree, lsr, tmp, cmpvars, walkvars>>

Next == Start \/ gotNewinfo \/ gotNewinfoMain \/ Drain \/ Finish \/ Restart

Spec == Init /\ [][Next]_vars

(***************************************************************************)
(* Comparator harness: pathCompare applied to three bounded strings.       *)
(***************************************************************************)
InitCmp ==
    /\ pa \in Strs /\ pb \in Strs /\ pc3 \in Strs
    /\ cmpres = <<>>
    /\ wtree = {} /\ wout = <<>>
    /\ design = "part_000" /\ tree = <<>> /\ lsr = NoFile /\ tmp = NoFile
    /\ relax = FALSE /\ oldinfo = ZeroInfo /\ oldscan = 0 /\ todo = <<>>
    /\ out = <<>> /\ ignored = {} /\ pc = "off" /\ run = 0 /\ prev = <<>>

Compare ==
    /\ cmpres = <<>>
    /\ cmpres' = [ab |-> pathCompare(pa, pb), ba |-> pathCompare(pb, pa),
                  bc |-> pathCompare(pb, pc3), ac |-> pathCompare(pa, pc3)]
    /\ UNCHANGED <<pa, pb, pc3, walkvars, progvars>>

NextCmp == Compare
SpecCmp == InitCmp /\ [][NextCmp]_vars

(***************************************************************************)
(* Walk harness: the walk applied to a bounded tree.                       *)
(***************************************************************************)
InitWalk ==
    /\ wtree = {}
    /\ wout = <<>>
    /\ pa = <<>> /\ pb = <<>> /\ pc3 = <<>> /\ cmpres = <<>>
    /\ design = "part_000" /\ tree = <<>> /\ lsr = NoFile /\ tmp = NoFile
    /\ relax = FALSE /\ oldinfo = ZeroInfo /\ oldscan = 0 /\ todo = <<>>
    /\ out = <<>> /\ ignored = {} /\ pc = "off" /\ run = 0 /\ prev = <<>>

(* A regular file is added to the tree, with the directories above it.     *)
AddFile ==
    /\ Cardinality(wtree) < MaxFiles
    /\ \E f \in Paths \ wtree :
        /\ IsTree(wtree \cup {f})
        /\ wtree' = wtree \cup {f}
    /\ wout' = <<>>
    /\ UNCHANGED <<cmpvars, progvars>>

Walk ==
    /\ wout = <<>> /\ wtree # {}
    /\ wout' = WalkDir(wtree)
    /\ UNCHANGED <<wtree, cmpvars, progvars>>

NextWalk == AddFile \/ Walk
SpecWalk == InitWalk /\ [][NextWalk]_vars

(***************************************************************************)
(* Properties of the program                                               *)
(***************************************************************************)
(* While a run is between its start and its rename, .lsr holds the         *)
(* previous snapshot P; the tree is the current snapshot C.                *)
InRun == pc \in {"walk", "drain", "close"}

PrevPaths   == {Unquote(lsr.lines[i].name) : i \in 1..Len(lsr.lines)}
PrevLine(p) ==
    lsr.lines[CHOOSE i \in 1..Len(lsr.lines) : Unquote(lsr.lines[i].name) = p]
PrevSum(p)  == Decode(PrevLine(p).sum).sum
Unvisited   == {todo[i].path : i \in 1..Len(todo)}
Visited     == DOMAIN tree \ Unvisited
EventsOf(p) == {i \in 1..Len(out) : out[i].path = p}
CodeOf(p)   == IF EventsOf(p) = {} THEN ""
               ELSE out[CHOOSE i \in EventsOf(p) : TRUE].code
Has(p, c)   == \E i \in EventsOf(p) : out[i].code = c
Written(p)  == {i \in 1..Len(tmp.lines) : Unquote(tmp.lines[i].name) = p}

(* The paths of both snapshots that the run has compared, and for such a   *)
(* path: the previous mtime, and whether (size, digest) of the record the  *)
(* run made differs from the previous record.                              *)
Both == Visited \cap PrevPaths
PrevTime(p) == Parse(PrevLine(p).time)
RecordDiffers(p) ==
    \/ PrevLine(p).size # tree[p].size
    \/ IF Written(p) # {}
       THEN \E i \in Written(p) : Decode(tmp.lines[i].sum).sum # PrevSum(p)
       ELSE ~relax /\ tree[p].sum # PrevSum(p)

(* C1: merge completeness of part_000.  When the walk has called back for  *)
(* every path of C and main has drained P, every path of P \cup C has its  *)
(* one classification: D if only in P, N if only in C, at most one line    *)
(* and then one of M, R, C, T if in both; no line is about another path.   *)
C1_MergeComplete ==
    (design = "part_000" /\ pc = "close" /\ "walk" \notin ignored) =>
        /\ \A i \in 1..Len(out) : out[i].path \in PrevPaths \cup DOMAIN tree
        /\ \A p \in PrevPaths \cup DOMAIN tree :
            /\ Cardinality(EventsOf(p)) <= 1
            /\ (p \in PrevPaths /\ p \notin DOMAIN tree) => CodeOf(p) = "D"
            /\ (p \notin PrevPaths /\ p \in DOMAIN tree) => CodeOf(p) = "N"
            /\ (p \in PrevPaths /\ p \in DOMAIN tree)
                    => CodeOf(p) \in {"M", "R", "C", "T", ""}

C1_Witness ==
    /\ design = "part_000" /\ pc = "close" /\ "walk" \notin ignored
    /\ PrevPaths = {PA, PAB} /\ DOMAIN tree = {PAC, PAB}
    /\ CodeOf(PA) = "D" /\ CodeOf(PAC) = "N" /\ CodeOf(PAB) = "M"

(* C2: a path in both snapshots whose (size, digest) differs and whose     *)
(* previous mtime is within one second of the current mtime is reported    *)
(* as C, also when the previous mtime is the current one cut to whole      *)
(* seconds.  Stated for that case, which is within the tolerance: the      *)
(* previous line holds the file's present mtime as Format wrote it.        *)
C2_CorruptedWithinTolerance ==
    (design = "part_000" /\ InRun) =>
        \A p \in Both :
            (RecordDiffers(p) /\ PrevLine(p).time = Format(tree[p].mtime)
                              /\ SameTime(PrevTime(p), tree[p].mtime))
                => CodeOf(p) = "C"

C4_TouchedBoundary ==
    (design = "part_000" /\ InRun) =>
        \A p \in Both :
            (PrevLine(p).size = tree[p].size /\ PrevSum(p) = tree[p].sum) =>
                /\ CodeOf(p) \in {"T", ""}
                /\ CodeOf(p) = "T"
                     <=> Abs(PrevTime(p) - tree[p].mtime) > TicksPerSec

C4_Witness ==
    /\ design = "part_000" /\ InRun /\ Both = {PAC, PAB}
    /\ PrevLine(PAC).size = tree[PAC].size /\ PrevSum(PAC) = tree[PAC].sum
    /\ PrevLine(PAB).size = tree[PAB].size /\ PrevSum(PAB) = tree[PAB].sum
    /\ tree[PAC].mtime - PrevTime(PAC) = TicksPerSec /\ CodeOf(PAC) = ""
    /\ tree[PAB].mtime - PrevTime(PAB) = TicksPerSec + 1 /\ CodeOf(PAB) = "T"


(* C5: a second run over the same tree, after a run that completed and     *)
(* replaced the manifest, prints nothing and writes the manifest it read,  *)
(* whatever the trust mode of either run.  (Both runs called back for      *)
(* every path and wrote every line: Restart follows such a first run.)     *)
SecondRunEnds == run = 2 /\ pc = "close" /\ ignored = {}

C6_LsrUntouchedBeforeRename ==
    [][(lsr.exists /\ ~(pc = "close" /\ pc' = "done")) => lsr' = lsr]_vars

C6_Witness ==
    /\ pc = "fatal" /\ run = 1
    /\ Len(lsr.lines) = 2 /\ Len(tmp.lines) = 1
    /\ tmp.lines[1] # lsr.lines[1]

(* C7: when the walk stops at an error, a path of the previous snapshot    *)
(* that is still in the tree and was not called back for is not reported   *)
(* as D, and is not passed over without a line either.                     *)
C7_ErrorsAreNotDeletions ==
    (design = "part_000" /\ pc = "close" /\ "walk" \in ignored) =>
        \A p \in (Unvisited \cap DOMAIN tree) \cap PrevPaths :
            ~Has(p, "D") /\ EventsOf(p) # {}

(* C8: the manifest that replaces .lsr has exactly one line for every      *)
(* regular file of the tree, in walk order (so a run in which the walk or  *)
(* a write failed must not get as far as the rename).                      *)
C8_NoPartialManifest ==
    pc = "done" =>
        [i \in 1..Len(lsr.lines) |-> Unquote(lsr.lines[i].name)]
            = WalkDir(DOMAIN tree)


(* C9: pathCompare is a strict total order on path strings: it returns 0   *)
(* exactly for equal strings, is antisymmetric (cmp(a,b) = -cmp(b,a)) and  *)
(* transitive; a proper prefix sorts before the longer string, and at the  *)
(* first differing position a '/' sorts before any other character.        *)
FirstDiff(a, b) ==
    IF \E i \in 1..MinLen(a, b) : a[i] # b[i]
    THEN CHOOSE i \in 1..MinLen(a, b) :
            a[i] # b[i] /\ \A j \in 1..(i - 1) : a[j] = b[j]
    ELSE 0

C9_StrictTotalOrder ==
    cmpres # <<>> =>
        /\ cmpres.ab \in {-1, 0, 1}
        /\ (cmpres.ab = 0) <=> (pa = pb)
        /\ cmpres.ab = -cmpres.ba
        /\ (cmpres.ab < 0 /\ cmpres.bc < 0) => cmpres.ac < 0
        /\ (Len(pa) < Len(pb) /\ SubSeq(pb, 1, Len(pa)) = pa) => cmpres.ab < 0
        /\ (FirstDiff(pa, pb) # 0 /\ pa[FirstDiff(pa, pb)] = 47) => cmpres.ab < 0

C9_Witness ==
    /\ cmpres # <<>>
    /\ pa = <<97, 47>> /\ pb = <<97, 45>> /\ pc3 = <<97, 45, 97>>
    /\ cmpres.ab = -1 /\ cmpres.bc = -1 /\ cmpres.ac = -1

(* C10: the regular-file paths of a depth-first walk in byte-wise name     *)
(* order are strictly increasing under pathCompare, so sorting the walk's  *)
(* output by pathCompare gives the walk's own order.                       *)
RECURSIVE SortPaths(_)
SortPaths(S) ==
    IF S = {} THEN <<>>
    ELSE LET m == CHOOSE x \in S : \A y \in S : pathCompare(x, y) <= 0
         IN  <<m>> \o SortPaths(S \ {m})

Range(s) == {s[i] : i \in 1..Len(s)}

C10_WalkIsComparatorOrder ==
    wout # <<>> =>
        /\ Range(wout) = wtree
        /\ \A i \in 1..(Len(wout) - 1) : pathCompare(wout[i], wout[i + 1]) < 0
        /\ SortPaths(Range(wout)) = wout

C10_Witness ==
    /\ wout = << <<97, 47, 97>>, <<97, 45>> >>
    /\ stringCompare(wout[2], wout[1]) < 0

(* C11: the digest of every line a run writes is the hash of the file's    *)
(* contents, except that with RELAX set it can be the digest of the        *)
(* previous record of the same path, and then that record has the file's   *)
(* size and an mtime within one second of the file's; without RELAX, for a *)
(* path without previous record, for another size or an mtime further      *)
(* away it is the hash.                                                    *)
WrittenPath(i) == Unquote(tmp.lines[i].name)
WrittenSum(i)  == Decode(tmp.lines[i].sum).sum
Reusable(p) ==
    /\ p \in PrevPaths
    /\ PrevLine(p).size = tree[p].size
    /\ SameTime(PrevTime(p), tree[p].mtime)

C11_ReuseOptInGuarded ==
    InRun =>
        \A i \in 1..Len(tmp.lines) :
            LET p == WrittenPath(i)
            IN  \/ WrittenSum(i) = tree[p].sum
                \/ relax /\ Reusable(p) /\ WrittenSum(i) = PrevSum(p)

C11_Witness ==
    /\ InRun /\ relax /\ Len(tmp.lines) = 2
    /\ WrittenPath(1) = PAC /\ WrittenPath(2) = PAB
    /\ Reusable(PAC) /\ PrevSum(PAC) # tree[PAC].sum
    /\ WrittenSum(1) = PrevSum(PAC)
    /\ PAB \in PrevPaths /\ PrevLine(PAB).size # tree[PAB].size
    /\ WrittenSum(2) = tree[PAB].sum /\ WrittenSum(2) # PrevSum(PAB)

(* C12: at every point of a run .lsrTEMPORARY holds one line for every     *)
(* regular file the walk has called back for so far and no other line, in  *)
(* the order of the calls, each with the file's path, size and mtime (the  *)
(* digest is the matter of C11); the paths are strictly increasing under   *)
(* pathCompare, so no path is there twice.                                 *)
VisitedSeq == SubSeq(WalkDir(DOMAIN tree), 1, Cardinality(Visited))

C12_ManifestIsVisitedRecords ==
    InRun =>
        /\ Len(tmp.lines) = Len(VisitedSeq)
        /\ \A i \in 1..Len(tmp.lines) :
            /\ i <= Len(VisitedSeq)
            /\ tmp.lines[i].form = "ok"
            /\ WrittenPath(i) = VisitedSeq[i]
            /\ tmp.lines[i].size = tree[VisitedSeq[i]].size
            /\ tmp.lines[i].time = Format(tree[VisitedSeq[i]].mtime)
        /\ \A i, j \in 1..Len(tmp.lines) :
            i < j => pathCompare(WrittenPath(i), WrittenPath(j)) < 0

(* C13: a run that finds no .lsr starts with the previous cursor at the    *)
(* end of an empty stream; while it runs, its diagnostic lines are exactly *)
(* one N for every regular file called back for so far, in that order, and *)
(* no D, M, R, T or C; when it completes, the manifest it publishes has    *)
(* one record for every file it called back for.                           *)
EmptyPrevious == lsr.exists /\ lsr.lines = <<>>

C13_FirstRunAllNew ==
    /\ [][(pc = "init" /\ ~lsr.exists /\ pc' = "walk")
            => (EmptyPrevious' /\ oldinfo'.eof /\ oldscan' = 0)]_vars
    /\ []((InRun /\ EmptyPrevious) =>
            /\ oldinfo.eof
            /\ out = [i \in 1..Len(VisitedSeq) |->
                        [code |-> "N", path |-> VisitedSeq[i]]])
    /\ [][(pc = "close" /\ EmptyPrevious /\ pc' = "done") =>
            [i \in 1..Len(lsr'.lines) |-> Unquote(lsr'.lines[i].name)]
                = VisitedSeq]_vars

(* C14: in main.go, when the walk has called back for every path and main  *)
(* goes on to close the files, the previous cursor is at the end of the    *)
(* stream and every previous path that is not in the tree, the ones after  *)
(* the last current path included, has been reported as D.                 *)
C14_DrainMain ==
    (design = "main_go" /\ pc = "close" /\ "walk" \notin ignored) =>
        /\ oldinfo.eof
        /\ \A p \in PrevPaths \ DOMAIN tree : Has(p, "D")

(* C15: in main.go, for a previous manifest and a walk both in the order   *)
(* of pathCompare, a path of both snapshots is never reported as N, and    *)
(* when the walk has called back for every path, a previous path that is   *)
(* gone and sorts before some current path under pathCompare has been      *)
(* reported as D (P = a/c, a-b and C = a-b: D a/c and no N a-b).           *)
Malformed(l) == l.form # "ok" \/ Decode(l.sum).ndst # 32
WellFormed   == \A i \in 1..Len(lsr.lines) : ~Malformed(lsr.lines[i])

C15_MergeOrderMain ==
    (design = "main_go" /\ InRun /\ WellFormed) =>
        /\ \A p \in Both : ~Has(p, "N")
        /\ (pc = "close" /\ "walk" \notin ignored) =>
              \A p \in PrevPaths \ DOMAIN tree :
                  (\E q \in DOMAIN tree : pathCompare(p, q) < 0) => Has(p, "D")

(* C16: a call of gotNewinfo for a regular file that returns nil moves the *)
(* previous cursor past the records it reports as D and, when it reports   *)
(* the path as N, no further: with no D the cursor (record and eof flag)   *)
(* is as it was, at the end or on a record of another path; otherwise the  *)
(* cursor was on the record of the path and moves past it, exactly once.   *)
(* A record the cursor is left on at an N is matched or reported as D      *)
(* later: when main goes on to close the files and the N is still the last *)
(* line printed, the cursor is at the end.                                 *)
CursorPos == IF oldinfo.eof THEN Len(lsr.lines) + 1 ELSE oldscan

FileStep ==
    /\ pc = "walk" /\ todo # <<>>
    /\ ~Head(todo).dir /\ Head(todo).path \notin {LsrName, TmpName}
    /\ todo' = Tail(todo)

CursorStep ==
    LET path == Head(todo).path
        new  == (Len(out) + 1)..Len(out')
        nD   == Cardinality({i \in new : out'[i].code = "D"})
        isN  == \E i \in new : out'[i] = [code |-> "N", path |-> path]
    IN  IF isN
        THEN /\ CursorPos' = CursorPos + nD
             /\ nD = 0 => (oldinfo' = oldinfo /\ oldscan' = oldscan)
             /\ oldinfo'.eof \/ oldinfo'.name # path
        ELSE /\ CursorPos' = CursorPos + nD + 1
             /\ Unquote(lsr.lines[CursorPos + nD].name) = path

C16_NewKeepsCursor ==
    /\ [][FileStep => CursorStep]_vars
    /\ []((pc = "close" /\ out # <<>> /\ out[Len(out)].code = "N")
            => oldinfo.eof)

(* C17: a run does not get past a line of .lsr that is not well formed     *)
(* (a field that does not parse, a wrong number of fields, a digest that   *)
(* does not decode to 32 bytes): reading such a line ends the process at   *)
(* once, the line is the last one read, and a process that has ended       *)
(* prints nothing more and does not rename.                                *)
C17_FatalOnMalformedLine ==
    /\ [](\A i \in 1..Len(lsr.lines) :
            (i <= oldscan /\ Malformed(lsr.lines[i]))
                => (pc = "fatal" /\ i = oldscan))
    /\ [][pc # "fatal"]_vars

(* C18: in part_000 the paths of the diagnostic lines printed so far are   *)
(* strictly increasing under pathCompare, all codes together (so the D of  *)
(* a previous path comes before the line of every current path that sorts  *)
(* after it), and within a run the previous cursor only moves forward:     *)
(* the count of lines read does not go down, eof once set stays set, and   *)
(* a new record under the cursor has a path after the one before.          *)
C18_EventsIncreasing ==
    /\ [](design = "part_000" =>
            \A i, j \in 1..Len(out) :
                i < j => pathCompare(out[i].path, out[j].path) < 0)
    /\ [][(design = "part_000" /\ pc # "done") =>
            /\ oldscan' >= oldscan
            /\ oldinfo.eof => oldinfo'.eof
            /\ (~oldinfo'.eof /\ oldinfo'.name # oldinfo.name)
                    => pathCompare(oldinfo.name, oldinfo'.name) < 0]_vars

C18_Witness ==
    /\ design = "part_000" /\ pc = "close"
    /\ Len(out) = 3 /\ oldscan = 2 /\ oldinfo.eof
    /\ out[1] = [code |-> "D", path |-> PA]
    /\ out[2] = [code |-> "N", path |-> PAC]
    /\ out[3] = [code |-> "T", path |-> PAB]

(* C19: with trust mode off, what a run writes is a function of the tree   *)
(* alone and not of the previous manifest.  Every line written is the      *)
(* record of its file (path, size, mtime in whole seconds, hash of the     *)
(* contents), and a run that called back for every path and dropped no     *)
(* error writes, and then publishes, exactly the records of the tree in    *)
(* walk order; so two such runs over one tree write the same manifest      *)
(* whatever .lsr each of them read.                                        *)
FreshManifest ==
    LET w == WalkDir(DOMAIN tree)
    IN  [i \in 1..Len(w) |->
            Fprintf(w[i], tree[w[i]].size, tree[w[i]].mtime, tree[w[i]].sum)]

C19_ManifestIndependentOfOld ==
    ~relax =>
        /\ InRun => \A i \in 1..Len(tmp.lines) :
                        \E j \in 1..Len(FreshManifest) :
                            tmp.lines[i] = FreshManifest[j]
        /\ (pc = "close" /\ ignored = {}) => tmp.lines = FreshManifest
        /\ (pc = "done" /\ ignored = {}) => lsr.lines = FreshManifest

C19_Witness ==
    /\ ~relax /\ pc = "close" /\ ignored = {} /\ run = 1
    /\ DOMAIN tree = {PAC, PAB} /\ PrevPaths = {PA, PAB}
    /\ Reusable(PAB) /\ PrevSum(PAB) # tree[PAB].sum
    /\ tmp.lines = FreshManifest /\ tmp.lines # lsr.lines

(* C20: with RELAX set, a call of gotNewinfo that finds the cursor on the  *)
(* record of the path it is called for, with the file's size and an mtime  *)
(* within one second, prints nothing and the line it writes has the digest *)
(* of that record, whatever the file's contents; and a call prints C only  *)
(* for a path whose size differs from the previous record.                 *)
AtCursorSame(path) ==
    /\ ~oldinfo.eof /\ oldinfo.name = path
    /\ oldinfo.size = tree[path].size
    /\ SameTime(oldinfo.mtime, tree[path].mtime)

TrustCopies(path) ==
    AtCursorSame(path) =>
        /\ out' = out
        /\ tmp'.lines # tmp.lines =>
              tmp'.lines = Append(tmp.lines,
                    Fprintf(path, tree[path].size, tree[path].mtime, oldinfo.sum))

PrintsC(path) ==
    \E i \in (Len(out) + 1)..Len(out') : out'[i] = [code |-> "C", path |-> path]

PrintsD == \E i \in (Len(out) + 1)..Len(out') : out'[i].code = "D"

C20_TrustHidesContent ==
    [][(FileStep /\ relax) =>
        LET path == Head(todo).path
        IN  /\ TrustCopies(path)
            /\ PrintsC(path) => PrevLine(path).size # tree[path].size]_vars

(* C20 as amended: C is printed also for a path of unchanged size whose    *)
(* record was not yet under the cursor when the call began, records of     *)
(* deleted paths standing before it: the call reports those as D and has   *)
(* by then hashed the file.                                                *)
C20_TrustHidesAtCursor ==
    [][(FileStep /\ relax) =>
        LET path == Head(todo).path
        IN  /\ TrustCopies(path)
            /\ PrintsC(path) =>
                  (PrevLine(path).size # tree[path].size \/ PrintsD)]_vars

C20_Witness ==
    /\ relax /\ pc = "close" /\ ignored = {}
    /\ PrevPaths = {PAC, PAB} /\ DOMAIN tree = {PAC, PAB}
    /\ Reusable(PAC) /\ PrevSum(PAC) # tree[PAC].sum
    /\ PrevLine(PAB).size # tree[PAB].size
    /\ out = <<[code |-> "C", path |-> PAB]>>
    /\ Len(tmp.lines) = 2 /\ WrittenSum(1) = PrevSum(PAC)

====
